---- MODULE Spec2Model ----
(***************************************************************************)
(* disorderfs: the directory enumeration and reordering engine (opendir /  *)
(* readdir / releasedir over a heap-allocated Dirents vector) and the      *)
(* per-request privilege separation Guard, modelled from disorderfs.cpp.   *)
(*                                                                         *)
(* Spec          one directory session over an underlying directory that   *)
(*               other processes change meanwhile (multi_user=no, the      *)
(*               default, so the Guard of opendir is inactive).            *)
(* SpecSessions  two directory sessions on one directory, interleaved.     *)
(* SpecGuard     two worker threads running handlers under the Guard, one  *)
(*               credential syscall per step.                              *)
(* SpecHandlers  one worker thread running each of the handlers.           *)
(***************************************************************************)
EXTENDS Integers, Sequences, FiniteSets, Bags, TLC

\* ---------------------------------------------------------------- bounds
\* mutations of the underlying directory per run
MaxMutations == 2

\* d_name values; the integer order stands for the byte order of the names
\* (1 = "a", 2 = "b", 3 = "c")
Names == {1, 2, 3}
Sessions == {1, 2}
\* heap cells for Dirents vectors
Addrs == {1, 2, 3}

\* errno values produced by the underlying filesystem (errno.h)
ENOENT == 2
EIO == 5
ENOMEM == 12
EACCES == 13

\* ------------------------------------------------------- pure functions
\* timespec { tv_sec, tv_nsec }
Timespec(s, ns) == [tv_sec |-> s, tv_nsec |-> ns]
\* the time a change of the underlying directory stamps on the entry it changes
Now == Timespec(1, 1)

\* operator< that compares tv_sec only
TimespecLessSecondsOnly(first, second) == first.tv_sec < second.tv_sec

\* bool operator< (const timespec first, const timespec second)
TimespecLess(first, second) ==
    IF first.tv_sec < second.tv_sec THEN TRUE
    ELSE IF first.tv_sec = second.tv_sec THEN first.tv_nsec < second.tv_nsec
    ELSE FALSE

\* const timespec INVALID = {0,0}
INVALID == Timespec(0, 0)

\* std::pair<std::string, ino_t>
Dirent(name, ino) == [first |-> name, second |-> ino]
\* Ctime_Dirent_pair = std::pair<timespec, std::pair<std::string, ino_t>>
CtimeDirentPair(ct, de) == [first |-> ct, second |-> de]

\* std::sort(dirents) given std::greater: the pairs compared the other way round
DirentGreater(a, b) ==
    \/ b.first < a.first
    \/ (~(a.first < b.first) /\ b.second < a.second)

\* std::pair's operator< on (name, inode), used by std::sort(dirents)
DirentLess(a, b) ==
    \/ a.first < b.first
    \/ (~(b.first < a.first) /\ a.second < b.second)

\* compare_ctime_dirents with its operands swapped
compare_ctime_dirents_swapped(a, b) == TimespecLess(b.first, a.first)

\* compare_ctime_dirents comparing the names of the pairs, not their timestamps
compare_ctime_dirents_by_name(a, b) == a.second.first < b.second.first

\* bool compare_ctime_dirents(Ctime_Dirent_pair a, Ctime_Dirent_pair b)
compare_ctime_dirents(a, b) == TimespecLess(a.first, b.first)

\* the sequences that hold every element of the set S once
RECURSIVE Orders(_)
Orders(S) ==
    IF S = {} THEN {<<>>}
    ELSE UNION {{<<x>> \o p : p \in Orders(S \ {x})} : x \in S}

\* the orders of the indices of a sequence of each length a directory can have
IndexOrders == [n \in 0..Cardinality(Names) |-> Orders(1..n)]

\* the rearrangements of a sequence
Perms(s) == {[i \in 1..Len(s) |-> s[f[i]]] : f \in IndexOrders[Len(s)]}

\* std::sort: some rearrangement in which no element is less than an earlier
\* one; the order among equivalent elements is unspecified (not stable)
\* (comp: the comparator passed to it, or "operator<" when none is)
Compare(comp, a, b) ==
    IF comp = "compare_ctime_dirents" THEN compare_ctime_dirents(a, b) ELSE DirentLess(a, b)
StdSort(s, comp) ==
    {p \in Perms(s) : \A i, j \in 1..Len(p) : i < j => ~Compare(comp, p[j], p[i])}

\* std::reverse over [begin, end - 1): the last element stays where it is
ReverseAllButLast(s) ==
    [i \in 1..Len(s) |-> IF i = Len(s) THEN s[i] ELSE s[Len(s) - i]]

\* std::reverse
Reverse(s) == [i \in 1..Len(s) |-> s[Len(s) + 1 - i]]

\* std::shuffle with a generator seeded by a constant: one rearrangement only
ShuffleFixedSeed(s) == {[i \in 1..Len(s) |-> s[(i % Len(s)) + 1]]}

\* std::shuffle: any rearrangement
Shuffle(s) == Perms(s)

\* overwrite_dirents with a loop that starts one element late
overwrite_dirents_from_second(dirents, sorted_interim) ==
    [i \in 1..Len(dirents) |->
        IF 1 < i /\ i <= Len(sorted_interim) THEN sorted_interim[i].second ELSE dirents[i]]

\* overwrite_dirents: for i < sorted_interim.size(): dirents[i] = sorted_interim[i].second
overwrite_dirents(dirents, sorted_interim) ==
    [i \in 1..Len(dirents) |->
        IF i <= Len(sorted_interim) THEN sorted_interim[i].second ELSE dirents[i]]

\* "return errno" for "return -errno": the positive code
NegErrnoUnnegated(e) == e

\* "return -1" for "return -errno": the status of the call, not its errno
NegErrnoAsStatus(e) == 0 - 1

\* int wrap / return -errno
NegErrno(e) == 0 - e

SeqToBag(s) ==
    LET R == {s[i] : i \in 1..Len(s)}
    IN  [x \in R |-> Cardinality({i \in 1..Len(s) : s[i] = x})]

\* ------------------------------------------------------------- variables
VARIABLES
    config,     \* Disorderfs_config: shuffle/reverse/sort/sort_by_ctime flags
    multi_user, \* config.multi_user
    isRoot,     \* getuid() == 0
    fs,         \* the underlying directory: name -> [present, ino, ctime]
    nmut,       \* mutations of the underlying directory so far
    heap,       \* heap cells: addr -> [alloc, v] (a Dirents vector)
    fh,         \* fuse_file_info::fh of each session (0: never set)
    sess,       \* session state: none / open / closed / failed
    od,         \* the opendir call in flight: its locals and position
    streams,    \* DIR streams currently open in the process
    opret,      \* return value of each session's opendir
    raw,        \* the Dirents as readdir(3) yielded them during opendir
    ctimes,     \* the key of each entry of raw: the timestamp lstat captured,
                \* or (no capture) the on-disk ctime during the enumeration
    lstatFail,  \* whether an lstat of the session's opendir failed
    life,       \* per session: Dirents vectors created / released
    acting,     \* the session the last handler step ran on
    out,        \* last readdir call per session: [called, ret, seq] (seq: what filler took)
    stored,     \* the order opendir stored in the session's Dirents
    uerr,       \* the errno opendir(3) or readdir(3) set when it failed in the
                \* session's opendir (0: neither failed)
    cred,       \* per thread: [euid, egid, groups], the kernel's per-task credentials
    th,         \* per thread: the handler it runs and its position in it
    aborted,    \* std::abort() was called
    syslog,     \* per thread: the credential syscalls of its current handler
    touch,      \* per thread: the credentials its handler's primitive ran with
    gret,       \* per thread: the handler that returned last and its return line
    actor       \* the thread that took the last step

dirVars == <<config, fs, nmut, heap, fh, sess, od, streams, opret, raw, ctimes,
             lstatFail, life, acting, out, stored, uerr>>
guardVars == <<multi_user, isRoot, cred, th, aborted, syslog, touch, gret, actor>>
vars == <<dirVars, guardVars>>

Absent == [present |-> FALSE, ino |-> 0, ctime |-> INVALID]
File(ino, ct) == [present |-> TRUE, ino |-> ino, ctime |-> ct]
FreeCell == [alloc |-> FALSE, v |-> <<>>]
Cell(v) == [alloc |-> TRUE, v |-> v]
OdIdle == [pc |-> "idle", s |-> 0, dirents |-> 0, errno |-> 0, tmp |-> <<>>, i |-> 0]
NoOut == [called |-> FALSE, ret |-> 0, seq |-> <<>>]

\* the Guard's condition without its getuid() test
GuardActiveAnyUid == multi_user

\* Guard::Guard / Guard::~Guard: if (config.multi_user && getuid() == 0)
GuardActive == multi_user /\ isRoot

\* the underlying directory when the filesystem is mounted: the files named in
\* present; "a" changed last, the others at one earlier time
Directory(present) ==
    [n \in Names |->
        IF n \notin present THEN Absent
        ELSE IF n = 1 THEN File(1, Timespec(1, 0)) ELSE File(n, Timespec(0, 1))]

InitDir(present) ==
    /\ fs = Directory(present)
    /\ nmut = 0
    /\ heap = [a \in Addrs |-> FreeCell]
    /\ fh = [s \in Sessions |-> 0]
    /\ sess = [s \in Sessions |-> "none"]
    /\ od = OdIdle
    /\ streams = 0
    /\ opret = [s \in Sessions |-> 0]
    /\ raw = [s \in Sessions |-> <<>>]
    /\ ctimes = [s \in Sessions |-> <<>>]
    /\ lstatFail = [s \in Sessions |-> FALSE]
    /\ life = [s \in Sessions |-> [created |-> 0, released |-> 0]]
    /\ acting = 0
    /\ out = [s \in Sessions |-> NoOut]
    /\ stored = [s \in Sessions |-> <<>>]
    /\ uerr = [s \in Sessions |-> 0]

\* ------------------------------------------- the underlying directory
\* another process removes an entry of the directory or changes it
Unlink(n) ==
    /\ nmut < MaxMutations
    /\ fs[n].present
    /\ fs' = [fs EXCEPT ![n] = Absent]
    /\ nmut' = nmut + 1
    /\ UNCHANGED <<uerr, config, heap, fh, sess, od, streams, opret, raw, ctimes,
                   lstatFail, life, acting, out, stored>>

Touch(n) ==
    /\ nmut < MaxMutations
    /\ fs[n].present
    /\ fs[n].ctime # Now
    /\ fs' = [fs EXCEPT ![n].ctime = Now]
    /\ nmut' = nmut + 1
    /\ UNCHANGED <<uerr, config, heap, fh, sess, od, streams, opret, raw, ctimes,
                   lstatFail, life, acting, out, stored>>

\* ------------------------------------------------------------- opendir
\* an allocator that hands out the lowest address whether or not it is in use
NewDirentsReused == CHOOSE a \in Addrs : \A b \in Addrs : a <= b

\* new Dirents: a cell that is not allocated
NewDirents == CHOOSE a \in Addrs : ~heap[a].alloc /\ \A b \in Addrs : ~heap[b].alloc => a <= b

\* the orders in which readdir(3) may yield the directory's entries
Enumerations ==
    {[i \in 1..Len(q) |-> Dirent(q[i], fs[q[i]].ino)] :
        q \in Orders({n \in Names : fs[n].present})}

\* the ctime branch taken whenever sort_by_ctime is set
CtimeSortWithoutSortDirents == config.sort_by_ctime

\* if (config.sort_dirents) { if (config.sort_by_ctime) {: the ctime branch is taken
CtimeSort == config.sort_dirents /\ config.sort_by_ctime

\* the sort branch as it was before create_ctime_dirents_list: the comparison
\* calls lstat itself, so it reads the ctime on disk while the sort runs
SortBranchLstatInCompare(dirents, tmp) ==
    IF config.sort_dirents
    THEN IF config.sort_by_ctime
         THEN {overwrite_dirents(dirents, sorted) : sorted \in
                 StdSort([i \in 1..Len(tmp) |->
                            CtimeDirentPair(IF fs[tmp[i].second.first].present
                                            THEN fs[tmp[i].second.first].ctime
                                            ELSE INVALID,
                                            tmp[i].second)],
                         "compare_ctime_dirents")}
         ELSE StdSort(dirents, "operator<")
    ELSE {dirents}

\* the sort branch of opendir: the vectors dirents may hold after it
SortBranch(dirents, tmp) ==
    IF CtimeSort
    THEN {overwrite_dirents(dirents, sorted) : sorted \in StdSort(tmp, "compare_ctime_dirents")}
    ELSE IF config.sort_dirents
         THEN StdSort(dirents, "operator<")
         ELSE {dirents}

\* the reverse branch when the vector is reversed a second time
ReverseBranchTwice(dirents) ==
    IF config.reverse_dirents THEN Reverse(Reverse(dirents)) ELSE dirents

\* if (config.reverse_dirents) std::reverse(dirents->begin(), dirents->end())
ReverseBranch(dirents) == IF config.reverse_dirents THEN Reverse(dirents) ELSE dirents

\* errno after lstat(): a failing call sets it, a succeeding one leaves it alone
ErrnoAfterLstat(errno, status) == IF status # 0 THEN ENOENT ELSE errno

\* a raw Dirents pointer in place of the unique_ptr: an early return frees nothing
FreeDirentsNever(a) == heap

\* ~unique_ptr<Dirents> on a return before dirents.release()
FreeDirents(a) == [heap EXCEPT ![a] = FreeCell]

\* Guard g; new Dirents; d = opendir(root + path) succeeds
OpendirOpen(s) ==
    /\ od.pc = "idle"
    /\ sess[s] = "none" /\ \A r \in Sessions : r < s => sess[r] # "none"
    /\ ~GuardActive
    /\ od' = [pc |-> "readdir", s |-> s, dirents |-> NewDirents, errno |-> 0,
              tmp |-> <<>>, i |-> 0]
    /\ heap' = [heap EXCEPT ![NewDirents] = Cell(<<>>)]
    /\ streams' = streams + 1
    /\ sess' = [sess EXCEPT ![s] = "opening"]
    /\ life' = [life EXCEPT ![s].created = @ + 1]
    /\ acting' = s
    /\ UNCHANGED <<uerr, config, fs, nmut, fh, opret, raw, ctimes, lstatFail,
                   out, stored>>

\* Guard g; new Dirents; d = opendir(root + path) fails: return -errno
OpendirOpenFail(s, e) ==
    /\ od.pc = "idle"
    /\ sess[s] = "none" /\ \A r \in Sessions : r < s => sess[r] # "none"
    /\ ~GuardActive
    /\ heap' = FreeDirents(NewDirents)
    /\ sess' = [sess EXCEPT ![s] = "failed"]
    /\ opret' = [opret EXCEPT ![s] = NegErrno(e)]
    /\ life' = [life EXCEPT ![s] = [created |-> 1, released |-> 1]]
    /\ acting' = s
    /\ uerr' = [uerr EXCEPT ![s] = e]
    /\ UNCHANGED <<config, fs, nmut, fh, od, streams, raw, ctimes, lstatFail, out, stored>>

\* errno = 0; while ((dirent_p = readdir(d)) != NULL) emplace_back: runs to the end
OpendirReadAll(p) ==
    /\ od.pc = "readdir"
    /\ p \in Enumerations
    /\ heap' = [heap EXCEPT ![od.dirents] = Cell(p)]
    /\ raw' = [raw EXCEPT ![od.s] = p]
    /\ ctimes' = [ctimes EXCEPT ![od.s] =
                    IF config.sort_by_ctime
                    THEN [i \in 1..Len(p) |-> fs[p[i].first].ctime] ELSE <<>>]
    /\ od' = IF CtimeSort /\ Len(p) > 0
             THEN [od EXCEPT !.pc = "lstat", !.errno = 0, !.i = 1]
             ELSE [od EXCEPT !.pc = "finish", !.errno = 0]
    /\ acting' = od.s
    /\ UNCHANGED <<uerr, config, fs, nmut, fh, sess, streams, opret, lstatFail, life, out, stored>>

\* readdir(d) fails with errno e: if (errno != 0) return -errno (d stays open)
OpendirReadFail(e) ==
    /\ od.pc = "readdir"
    /\ heap' = FreeDirents(od.dirents)
    /\ sess' = [sess EXCEPT ![od.s] = "failed"]
    /\ opret' = [opret EXCEPT ![od.s] = NegErrno(e)]
    /\ life' = [life EXCEPT ![od.s].released = @ + 1]
    /\ od' = OdIdle
    /\ acting' = od.s
    /\ uerr' = [uerr EXCEPT ![od.s] = e]
    /\ UNCHANGED <<config, fs, nmut, fh, streams, raw, ctimes, lstatFail,
                   out, stored>>

\* create_ctime_dirents_list, one turn of its loop: lstat() of entry i
OpendirLstat ==
    /\ od.pc = "lstat"
    /\ LET de == heap[od.dirents].v[od.i]
           status == IF fs[de.first].present THEN 0 ELSE 0 - 1
           ctime == IF status # 0 THEN INVALID ELSE fs[de.first].ctime
       IN  /\ od' = [od EXCEPT !.tmp = Append(@, CtimeDirentPair(ctime, de)),
                               !.errno = ErrnoAfterLstat(@, status),
                               !.i = @ + 1,
                               !.pc = IF od.i = Len(heap[od.dirents].v)
                                      THEN "finish" ELSE "lstat"]
           /\ ctimes' = [ctimes EXCEPT ![od.s][od.i] = ctime]
           /\ lstatFail' = [lstatFail EXCEPT ![od.s] = @ \/ status # 0]
    /\ acting' = od.s
    /\ UNCHANGED <<uerr, config, fs, nmut, heap, fh, sess, streams, opret, raw, life, out, stored>>

\* sort, reverse, closedir(d); if (errno != 0) return -errno;
\* set_fuse_data(info, dirents.release()); return 0
OpendirFinish(dirents) ==
    /\ od.pc = "finish"
    /\ dirents \in SortBranch(heap[od.dirents].v, od.tmp)
    /\ streams' = streams - 1
    /\ IF od.errno # 0
       THEN /\ heap' = FreeDirents(od.dirents)
            /\ sess' = [sess EXCEPT ![od.s] = "failed"]
            /\ opret' = [opret EXCEPT ![od.s] = NegErrno(od.errno)]
            /\ life' = [life EXCEPT ![od.s].released = @ + 1]
            /\ UNCHANGED <<fh, stored>>
       ELSE /\ heap' = [heap EXCEPT ![od.dirents] = Cell(ReverseBranch(dirents))]
            /\ sess' = [sess EXCEPT ![od.s] = "open"]
            /\ opret' = [opret EXCEPT ![od.s] = 0]
            /\ fh' = [fh EXCEPT ![od.s] = od.dirents]
            /\ stored' = [stored EXCEPT ![od.s] = ReverseBranch(dirents)]
            /\ life' = life
    /\ od' = OdIdle
    /\ acting' = od.s
    /\ UNCHANGED <<uerr, config, fs, nmut, raw, ctimes, lstatFail, out>>

\* ------------------------------------------------- readdir, releasedir
\* the entries the filler takes before it refuses one (all of them: refuses none)
FillerTakes(dirents) == {SubSeq(dirents, 1, k) : k \in 0..Len(dirents)}

\* the shuffle branch with its test of config.shuffle_dirents lost
ShuffleBranchAlways(dirents) == Shuffle(dirents)

\* if (config.shuffle_dirents) std::shuffle(dirents.begin(), dirents.end(), g)
ShuffleBranch(dirents) == IF config.shuffle_dirents THEN Shuffle(dirents) ELSE {dirents}

\* the readdir handler on the session's Dirents: shuffle, then hand every entry
\* to filler; return -ENOMEM as soon as filler refuses one, else 0
Readdir(s, dirents, taken) ==
    /\ sess[s] = "open"
    /\ dirents \in ShuffleBranch(heap[fh[s]].v)
    /\ taken \in FillerTakes(dirents)
    /\ heap' = [heap EXCEPT ![fh[s]] = Cell(dirents)]
    /\ acting' = s
    /\ LET ret == IF Len(taken) < Len(dirents) THEN NegErrno(ENOMEM) ELSE 0
       IN  out' = [out EXCEPT ![s] = [called |-> TRUE, ret |-> ret, seq |-> taken]]
    /\ UNCHANGED <<uerr, config, fs, nmut, fh, sess, od, streams, opret, raw, ctimes,
                   lstatFail, life, stored>>

\* delete get_fuse_data<Dirents*>(info); return 0
Releasedir(s) ==
    /\ sess[s] = "open"
    /\ heap' = [heap EXCEPT ![fh[s]] = FreeCell]
    /\ sess' = [sess EXCEPT ![s] = "closed"]
    /\ life' = [life EXCEPT ![s].released = @ + 1]
    /\ raw' = [raw EXCEPT ![s] = <<>>]
    /\ ctimes' = [ctimes EXCEPT ![s] = <<>>]
    /\ stored' = [stored EXCEPT ![s] = <<>>]
    /\ out' = [out EXCEPT ![s] = NoOut]
    /\ acting' = s
    /\ UNCHANGED <<uerr, config, fs, nmut, fh, od, streams, opret, lstatFail>>

\* ------------------------------------------------ the privilege Guard
Threads == {1, 2}

\* the identities fuse_get_context() and fuse_getgroups() report for a request
Callers == {[uid |-> 1, gid |-> 1, groups |-> {1, 3}],
            [uid |-> 2, gid |-> 2, groups |-> {2, 3}]}

\* the identity restore_privileges() sets: euid 0, egid 0, no supplementary groups
Elevated == [euid |-> 0, egid |-> 0, groups |-> {}]

\* the operation handlers main() installs: whether the handler starts with
\* "Guard g;", the kind of primitive of the underlying filesystem it invokes
\* (by path, on an open descriptor, none) and the lines of its return statements
Handler(guard, prim, exits) == [guard |-> guard, prim |-> prim, exits |-> exits]
Handlers ==
    [getattr     |-> Handler(TRUE, "path", {374, 377}),
     readlink    |-> Handler(TRUE, "path", {383, 386}),
     mknod       |-> Handler(TRUE, "path", {390}),
     mkdir       |-> Handler(TRUE, "path", {394}),
     unlink      |-> Handler(TRUE, "path", {398}),
     rmdir       |-> Handler(TRUE, "path", {402}),
     symlink     |-> Handler(TRUE, "path", {406}),
     rename      |-> Handler(TRUE, "path", {410}),
     link        |-> Handler(TRUE, "path", {414}),
     chmod       |-> Handler(TRUE, "path", {418}),
     chown       |-> Handler(TRUE, "path", {422}),
     truncate    |-> Handler(TRUE, "path", {426}),
     open        |-> Handler(TRUE, "path", {432, 435}),
     read        |-> Handler(FALSE, "fd", {442, 449}),
     write       |-> Handler(FALSE, "fd", {456, 461}),
     statfs      |-> Handler(TRUE, "path", {465}),
     flush       |-> Handler(FALSE, "fd", {468}),
     release     |-> Handler(FALSE, "fd", {472}),
     fsync       |-> Handler(FALSE, "fd", {475}),
     setxattr    |-> Handler(TRUE, "path", {479}),
     getxattr    |-> Handler(TRUE, "path", {484}),
     listxattr   |-> Handler(TRUE, "path", {489}),
     removexattr |-> Handler(TRUE, "path", {493}),
     opendir     |-> Handler(TRUE, "path", {500, 508, 525, 528}),
     readdir     |-> Handler(FALSE, "none", {543, 546}),
     releasedir  |-> Handler(FALSE, "none", {550}),
     fsyncdir    |-> Handler(FALSE, "fd", {555}),
     create      |-> Handler(TRUE, "path", {562, 565}),
     ftruncate   |-> Handler(FALSE, "fd", {568}),
     fgetattr    |-> Handler(FALSE, "fd", {572, 575}),
     lock        |-> Handler(FALSE, "fd", {579}),
     flock       |-> Handler(FALSE, "fd", {582}),
     utimens     |-> Handler(TRUE, "path", {587}),
     write_buf   |-> Handler(FALSE, "fd", {612}),
     read_buf    |-> Handler(FALSE, "none", {617, 631}),
     fallocate   |-> Handler(FALSE, "fd", {634})]
AllHandlers == DOMAIN Handlers
\* the handlers the two concurrent threads run: one of each shape
SomeHandlers == {"getattr", "opendir", "read"}

\* Guarded with the Guard missing from getattr
GuardedButGetattr(h) == Handlers[h].guard /\ h # "getattr"

\* whether the handler constructs a Guard ("Guard g;" is its first statement)
Guarded(h) == Handlers[h].guard

NoCaller == [uid |-> 0, gid |-> 0, groups |-> {}]
ThIdle == [pc |-> "idle", k |-> 0, op |-> "none", caller |-> NoCaller, groups |-> {},
           ngroups |-> 0]
NoTouch == [done |-> FALSE, prim |-> "none", op |-> "none", cred |-> Elevated,
            caller |-> NoCaller]
NoRet == [op |-> "none", exit |-> 0]

\* seteuid of the C library, which changes the euid of every thread of the process
process_seteuid(t, euid) == [u \in Threads |-> [cred[u] EXCEPT !.euid = euid]]

\* thread_seteuid / thread_setegid / thread_setgroups: the raw syscalls change the
\* credentials of the calling thread only
thread_seteuid(t, euid) == [cred EXCEPT ![t].euid = euid]
thread_setegid(t, egid) == [cred EXCEPT ![t].egid = egid]
thread_setgroups(t, list) == [cred EXCEPT ![t].groups = list]

\* the kernel lets a thread change its groups only with euid 0, and its euid or
\* egid to a value other than its real, effective or saved one only with euid 0
\* (the real and saved ids of a process started by root are 0)
Permitted(t, call, arg) ==
    CASE call = "setgroups" -> cred[t].euid = 0
      [] call = "setegid" -> cred[t].euid = 0 \/ arg \in {0, cred[t].egid}
      [] call = "seteuid" -> cred[t].euid = 0 \/ arg \in {0, cred[t].euid}

\* drop_privileges switching in the order of restore_privileges: the uid first
DropOrderUidFirst == <<"seteuid", "setegid", "setgroups">>

\* the order of the three switches in drop_privileges and in restore_privileges
DropOrder == <<"setgroups", "setegid", "seteuid">>
RestoreOrder == <<"seteuid", "setegid", "setgroups">>

\* a switch whose return value is not tested
AfterSwitchUnchecked(status, next) == next

\* if (thread_set...(...) == -1) perror_and_die(...): where the thread goes next
AfterSwitch(status, next) == IF status = 0 - 1 THEN "die" ELSE next

\* get_fuse_groups without groups.clear(): on failure the vector is returned as
\* it was constructed, ngroups_max + 1 elements of value 0
get_fuse_groups_uncleared(caller, ngroups) == IF ngroups < 0 THEN {0} ELSE caller.groups

\* std::vector<gid_t> get_fuse_groups(): the caller's groups, or none when
\* fuse_getgroups fails (groups.clear())
get_fuse_groups(caller, ngroups) == IF ngroups < 0 THEN {} ELSE caller.groups

InitGuard(mu, root, startGroups) ==
    /\ multi_user = mu
    /\ isRoot = root
    /\ cred = [t \in Threads |->
                 IF root THEN [euid |-> 0, egid |-> 0, groups |-> startGroups]
                 ELSE [euid |-> 1, egid |-> 1, groups |-> {1}]]
    /\ th = [t \in Threads |-> ThIdle]
    /\ aborted = FALSE
    /\ syslog = [t \in Threads |-> <<>>]
    /\ touch = [t \in Threads |-> NoTouch]
    /\ gret = [t \in Threads |-> NoRet]
    /\ actor = 0

\* the dispatcher hands a request of caller c for handler h to the idle thread t;
\* Guard::Guard: if (config.multi_user && getuid() == 0) drop_privileges()
Request(t, h, c) ==
    /\ ~aborted
    /\ th[t].pc = "idle"
    /\ th' = [th EXCEPT ![t] = [pc |-> IF Guarded(h) /\ GuardActive
                                       THEN "getgroups" ELSE "body",
                                k |-> 0, op |-> h, caller |-> c, groups |-> {},
                                ngroups |-> 0]]
    /\ syslog' = [syslog EXCEPT ![t] = <<>>]
    /\ touch' = [touch EXCEPT ![t] = NoTouch]
    /\ gret' = [gret EXCEPT ![t] = NoRet]
    /\ actor' = t
    /\ UNCHANGED <<multi_user, isRoot, cred, aborted>>

\* drop_privileges: const std::vector<gid_t> groups(get_fuse_groups())
GetGroups(t, ngroups) ==
    /\ ~aborted
    /\ th[t].pc = "getgroups"
    /\ th' = [th EXCEPT ![t].groups = get_fuse_groups(th[t].caller, ngroups),
                        ![t].ngroups = ngroups,
                        ![t].pc = "drop", ![t].k = 1]
    /\ actor' = t
    /\ UNCHANGED <<multi_user, isRoot, cred, aborted, syslog, touch, gret>>

\* the credentials after one switch of the calling thread
Switch(t, call, arg) ==
    CASE call = "setgroups" -> thread_setgroups(t, arg)
      [] call = "setegid" -> thread_setegid(t, arg)
      [] call = "seteuid" -> thread_seteuid(t, arg)

\* what drop_privileges passes to each switch
DropArg(t, call) ==
    CASE call = "setgroups" -> th[t].groups
      [] call = "setegid" -> th[t].caller.gid
      [] call = "seteuid" -> th[t].caller.uid

\* what restore_privileges passes to each switch
RestoreArg(call) == IF call = "setgroups" THEN {} ELSE 0

\* a credential syscall as issued: its argument (an id as the set of that id),
\* the euid of the thread that issues it, and what it returned
LogEntry(t, call, arg, status) ==
    [call |-> call, arg |-> IF call = "setgroups" THEN arg ELSE {arg},
     euid |-> cred[t].euid, status |-> status]

\* drop_privileges, its k-th switch: status 0, or -1 (always when not permitted)
DropStep(t, status) ==
    /\ ~aborted
    /\ th[t].pc = "drop"
    /\ status = 0 => Permitted(t, DropOrder[th[t].k], DropArg(t, DropOrder[th[t].k]))
    /\ cred' = IF status = 0
               THEN Switch(t, DropOrder[th[t].k], DropArg(t, DropOrder[th[t].k]))
               ELSE cred
    /\ syslog' = [syslog EXCEPT ![t] = Append(@,
                    LogEntry(t, DropOrder[th[t].k], DropArg(t, DropOrder[th[t].k]), status))]
    /\ th' = [th EXCEPT ![t].pc = AfterSwitch(status, IF th[t].k = 3 THEN "body" ELSE "drop"),
                        ![t].k = IF th[t].k = 3 THEN 0 ELSE @ + 1]
    /\ actor' = t
    /\ UNCHANGED <<multi_user, isRoot, aborted, touch, gret>>

\* privileges restored by hand before the handler's last return statement only
GuardReleasesAtLastReturn(h, exit) ==
    Guarded(h) /\ GuardActive /\ \A e \in Handlers[h].exits : e <= exit

\* Guard::~Guard runs when g goes out of scope, at whichever return statement
\* the handler leaves by: if (config.multi_user && getuid() == 0) restore_privileges()
GuardReleases(h, exit) == Guarded(h) /\ GuardActive

\* the handler's body: it invokes its primitive of the underlying filesystem and
\* reaches one of its return statements; without a Guard it returns at once
Body(t, exit) ==
    /\ ~aborted
    /\ th[t].pc = "body"
    /\ exit \in Handlers[th[t].op].exits
    /\ touch' = [touch EXCEPT ![t] =
                    IF Handlers[th[t].op].prim = "none" THEN NoTouch
                    ELSE [done |-> TRUE, prim |-> Handlers[th[t].op].prim,
                          op |-> th[t].op, cred |-> cred[t], caller |-> th[t].caller]]
    /\ IF GuardReleases(th[t].op, exit)
       THEN /\ th' = [th EXCEPT ![t].pc = "restore", ![t].k = 1]
            /\ gret' = [gret EXCEPT ![t] = [op |-> "none", exit |-> exit]]
       ELSE /\ th' = [th EXCEPT ![t] = ThIdle]
            /\ gret' = [gret EXCEPT ![t] = [op |-> th[t].op, exit |-> exit]]
    /\ actor' = t
    /\ UNCHANGED <<multi_user, isRoot, cred, aborted, syslog>>

\* Guard::~Guard on the way out: restore_privileges, its k-th switch; after the
\* third the handler has returned
RestoreStep(t, status) ==
    /\ ~aborted
    /\ th[t].pc = "restore"
    /\ status = 0 => Permitted(t, RestoreOrder[th[t].k], RestoreArg(RestoreOrder[th[t].k]))
    /\ cred' = IF status = 0
               THEN Switch(t, RestoreOrder[th[t].k], RestoreArg(RestoreOrder[th[t].k]))
               ELSE cred
    /\ syslog' = [syslog EXCEPT ![t] = Append(@,
                    LogEntry(t, RestoreOrder[th[t].k], RestoreArg(RestoreOrder[th[t].k]), status))]
    /\ th' = IF AfterSwitch(status, IF th[t].k = 3 THEN "idle" ELSE "restore") = "idle"
             THEN [th EXCEPT ![t] = ThIdle]
             ELSE [th EXCEPT ![t].pc = AfterSwitch(status, "restore"),
                             ![t].k = IF th[t].k = 3 THEN 0 ELSE @ + 1]
    /\ gret' = IF AfterSwitch(status, IF th[t].k = 3 THEN "idle" ELSE "restore") = "idle"
               THEN [gret EXCEPT ![t].op = th[t].op]
               ELSE gret
    /\ actor' = t
    /\ UNCHANGED <<multi_user, isRoot, aborted, touch>>

\* perror_and_die: std::perror(s); std::abort()
Die(t) ==
    /\ ~aborted
    /\ th[t].pc = "die"
    /\ aborted' = TRUE
    /\ actor' = t
    /\ UNCHANGED <<multi_user, isRoot, cred, th, syslog, touch, gret>>

\* ------------------------------------------------------ specifications
Flags == [shuffle_dirents : BOOLEAN, reverse_dirents : BOOLEAN,
          sort_dirents : BOOLEAN, sort_by_ctime : BOOLEAN]
\* Disorderfs_config's member initializers
DefaultConfig == [shuffle_dirents |-> FALSE, reverse_dirents |-> TRUE,
                  sort_dirents |-> FALSE, sort_by_ctime |-> FALSE]

\* the environment: other processes change the underlying directory
NextFs ==
    \/ \E n \in Names : Unlink(n) /\ UNCHANGED guardVars
    \/ \E n \in Names : Touch(n) /\ UNCHANGED guardVars

\* the directory handlers, for the sessions S
NextDir(S) ==
    \/ \E s \in S : OpendirOpen(s) /\ UNCHANGED guardVars
    \/ \E s \in S, e \in {ENOENT, EACCES} : OpendirOpenFail(s, e) /\ UNCHANGED guardVars
    \/ /\ od.pc = "readdir"
       /\ \E p \in Enumerations : OpendirReadAll(p) /\ UNCHANGED guardVars
    \/ OpendirReadFail(EIO) /\ UNCHANGED guardVars
    \/ OpendirLstat /\ UNCHANGED guardVars
    \/ /\ od.pc = "finish"
       /\ \E d \in SortBranch(heap[od.dirents].v, od.tmp) :
             OpendirFinish(d) /\ UNCHANGED guardVars
    \/ \E s \in {r \in S : sess[r] = "open"} : \E d \in ShuffleBranch(heap[fh[s]].v) :
          \E taken \in FillerTakes(d) : Readdir(s, d, taken) /\ UNCHANGED guardVars
    \/ \E s \in S : Releasedir(s) /\ UNCHANGED guardVars

\* one directory session over a directory of three entries that other processes
\* change meanwhile, for every combination of the reordering options
Init ==
    /\ config \in Flags
    /\ InitDir(Names)
    /\ InitGuard(FALSE, TRUE, {})

Next == NextFs \/ NextDir({1})

Spec == Init /\ [][Next]_vars

\* two directory sessions over one directory of two entries, in any interleaving
InitSessions ==
    /\ config \in Flags
    /\ InitDir({1, 2})
    /\ InitGuard(FALSE, TRUE, {})

NextSessions == NextDir(Sessions)

SpecSessions == InitSessions /\ [][NextSessions]_vars

\* worker threads under the Guard, for every multi_user / getuid() combination
InitGuardSpec ==
    /\ config = DefaultConfig
    /\ InitDir(Names)
    /\ \E mu \in BOOLEAN, root \in BOOLEAN, sg \in {{}, {0}} : InitGuard(mu, root, sg)

NextThreads(T, H) ==
    \/ \E t \in T, h \in H, c \in Callers : Request(t, h, c) /\ UNCHANGED dirVars
    \/ \E t \in T, ngroups \in {0 - 1, 2} : GetGroups(t, ngroups) /\ UNCHANGED dirVars
    \/ \E t \in T, status \in {0 - 1, 0} : DropStep(t, status) /\ UNCHANGED dirVars
    \/ \E t \in {u \in T : th[u].pc = "body"} : \E exit \in Handlers[th[t].op].exits :
          Body(t, exit) /\ UNCHANGED dirVars
    \/ \E t \in T, status \in {0 - 1, 0} : RestoreStep(t, status) /\ UNCHANGED dirVars
    \/ \E t \in T : Die(t) /\ UNCHANGED dirVars

\* two threads, interleaved step by step
NextGuard == NextThreads(Threads, SomeHandlers)
SpecGuard == InitGuardSpec /\ [][NextGuard]_vars

\* one thread, every handler
NextHandlers == NextThreads({1}, AllHandlers)
SpecHandlers == InitGuardSpec /\ [][NextHandlers]_vars

\* ------------------------------------------------- directory sessions
OpenSessions == {s \in Sessions : sess[s] = "open"}
\* the session's Dirents vector, as it is now
Snapshot(s) == heap[fh[s]].v
\* the session's last readdir call returned 0: what it handed to filler is a listing
Delivered(s) == out[s].called /\ out[s].ret = 0
IsPrefix(p, q) == Len(p) <= Len(q) /\ p = SubSeq(q, 1, Len(p))
\* the key under which opendir saw the entry e of session s
KeyOf(s, e) == ctimes[s][CHOOSE i \in 1..Len(raw[s]) : raw[s][i] = e]
NonDecreasingByCtime(s, seq) ==
    \A i, j \in 1..Len(seq) : i < j => ~TimespecLess(KeyOf(s, seq[j]), KeyOf(s, seq[i]))

\* C1: under every combination of sort, ctime sort, reverse and shuffle, the
\* Dirents of an open session hold exactly the (name, inode) entries readdir(3)
\* yielded during its opendir, each as often, whatever readdir calls came before
\* and however the underlying directory changed since; every readdir call that
\* returns 0 handed exactly these entries to filler, and a call that filler
\* refused handed it a prefix of the vector.
C1_MultisetPreserved ==
    \A s \in OpenSessions :
        /\ SeqToBag(Snapshot(s)) = SeqToBag(raw[s])
        /\ Delivered(s) => SeqToBag(out[s].seq) = SeqToBag(raw[s])
        /\ out[s].called => IsPrefix(out[s].seq, Snapshot(s))

\* C1 witness: a ctime-sorted, reversed and shuffled session delivered all three
\* entries it captured although one of them has been unlinked since
C1_Witness ==
    /\ config.sort_dirents /\ config.sort_by_ctime
    /\ config.reverse_dirents /\ config.shuffle_dirents
    /\ sess[1] = "open" /\ Delivered(1) /\ Len(out[1].seq) = 3
    /\ \E i \in 1..Len(raw[1]) : ~fs[raw[1][i].first].present

\* C2: an opendir with ctime sorting in which an lstat failed (the directory was
\* opened and read without error) returns 0 and leaves a session whose Dirents
\* hold every entry that was read.
C2_OpenSurvivesLstatFailure ==
    \A s \in Sessions :
        (lstatFail[s] /\ sess[s] # "opening") =>
            /\ sess[s] = "open"
            /\ opret[s] = 0
            /\ SeqToBag(Snapshot(s)) = SeqToBag(raw[s])

\* C10 as stated: with sort_by_ctime set (reverse and shuffle not), whatever
\* sort_dirents is, every listing a readdir call delivers is non-decreasing by
\* the entries' change-time at opendir and is the one order stored at opendir.
C10_CtimeOrderEitherSortDirents ==
    (config.sort_by_ctime /\ ~config.reverse_dirents /\ ~config.shuffle_dirents) =>
        \A s \in OpenSessions :
            Delivered(s) =>
                /\ NonDecreasingByCtime(s, out[s].seq)
                /\ out[s].seq = stored[s]

\* C10 amended: with sort_dirents and sort_by_ctime both set (reverse and shuffle
\* not), the Dirents of an open session are non-decreasing by the timestamps
\* lstat captured during opendir, and every readdir call that returns 0 delivers
\* that same order, the one stored at opendir.
C10_CtimeOrder ==
    (config.sort_dirents /\ config.sort_by_ctime
        /\ ~config.reverse_dirents /\ ~config.shuffle_dirents) =>
        \A s \in OpenSessions :
            /\ NonDecreasingByCtime(s, Snapshot(s))
            /\ Snapshot(s) = stored[s]
            /\ Delivered(s) => out[s].seq = stored[s]

\* C10 witness: a ctime-sorted session whose captured timestamps are not all
\* equal delivered its three entries, the entry touched during opendir last
C10_Witness ==
    /\ config.sort_dirents /\ config.sort_by_ctime
    /\ ~config.reverse_dirents /\ ~config.shuffle_dirents
    /\ sess[1] = "open" /\ Delivered(1) /\ Len(out[1].seq) = 3
    /\ KeyOf(1, out[1].seq[3]) = Now
    /\ out[1].seq # raw[1]

\* ------------------------------------------------- the Guard's threads
\* the caller of the request thread t runs, or ran last
ReqCaller(t) == IF touch[t].done THEN touch[t].caller ELSE th[t].caller
\* the credentials c are the caller's: its uid, its gid and the groups
\* get_fuse_groups returned for it (none when fuse_getgroups failed)
SwitchedTo(c, caller) ==
    /\ c.euid = caller.uid
    /\ c.egid = caller.gid
    /\ c.groups \in {caller.groups, {}}
Failed(t) == \E i \in 1..Len(syslog[t]) : syslog[t][i].status # 0
CallNames(log) == [i \in 1..Len(log) |-> log[i].call]
SwitchOrder == <<"setgroups", "setegid", "seteuid", "seteuid", "setegid", "setgroups">>

\* C3: in multi-user mode as superuser, a thread that has returned from a
\* guarded handler, by whichever return statement, has euid 0, egid 0 and no
\* supplementary groups; every thread between two requests has euid 0 and egid 0
\* and none of the groups of a caller.
C3_ElevatedAfterReturn ==
    GuardActive =>
        \A t \in Threads :
            th[t].pc = "idle" =>
                /\ cred[t].euid = 0 /\ cred[t].egid = 0
                /\ \A c \in Callers : cred[t].groups \cap c.groups = {}
                /\ (gret[t].op # "none" /\ Guarded(gret[t].op)) => cred[t] = Elevated

\* C3 witness: opendir has returned early, from the failed readdir loop, and its
\* thread is idle
C3_Witness ==
    /\ GuardActive
    /\ \E t \in Threads :
          /\ th[t].pc = "idle"
          /\ gret[t] = [op |-> "opendir", exit |-> 508]
          /\ Len(syslog[t]) = 6

\* C4: with the Guard active, the euid, egid and group list of every thread are
\* at every point those it started with, the elevated ones or those of the
\* caller of its own request, never those of another caller; and a step of one
\* thread leaves the credentials of every other thread as they were.
C4_ThreadIsolation ==
    /\ [](GuardActive =>
            \A t \in Threads :
                /\ cred[t].euid \in {0, th[t].caller.uid}
                /\ cred[t].egid \in {0, th[t].caller.gid}
                /\ \A c \in Callers :
                      (c # th[t].caller /\ cred[t].groups # {}) => cred[t].groups # c.groups)
    /\ [][\A u \in Threads : u # actor' => cred'[u] = cred[u]]_vars

\* C4 witness: both threads are in the body of a guarded handler, each switched
\* to its own caller, and the callers differ
C4_Witness ==
    /\ GuardActive
    /\ \A t \in Threads :
          /\ th[t].pc = "body" /\ Guarded(th[t].op)
          /\ cred[t] = [euid |-> th[t].caller.uid, egid |-> th[t].caller.gid,
                        groups |-> th[t].caller.groups]
    /\ th[1].caller # th[2].caller

\* C5 as stated: in multi-user mode as superuser, every primitive of the
\* underlying filesystem a handler invokes is invoked by a handler that holds a
\* Guard, with the thread's credentials switched to the caller's.
C5_EveryTouchGuarded ==
    GuardActive =>
        \A t \in Threads :
            touch[t].done =>
                /\ Guarded(touch[t].op)
                /\ SwitchedTo(touch[t].cred, touch[t].caller)

\* C5 amended: in multi-user mode as superuser, every handler that invokes a
\* primitive taking a path holds a Guard and invokes it with the caller's uid,
\* gid and reported groups; a handler that invokes a primitive on an open file
\* descriptor holds no Guard and invokes it with euid 0 and egid 0.
C5_PathTouchGuarded ==
    GuardActive =>
        \A t \in Threads :
            touch[t].done =>
                /\ touch[t].prim = "path" =>
                      /\ Guarded(touch[t].op)
                      /\ SwitchedTo(touch[t].cred, touch[t].caller)
                /\ touch[t].prim = "fd" =>
                      /\ ~Guarded(touch[t].op)
                      /\ touch[t].cred.euid = 0 /\ touch[t].cred.egid = 0

\* C5 witness: getattr has run its lstat under the Guard, as its caller
C5_Witness ==
    /\ GuardActive
    /\ touch[1].done /\ touch[1].op = "getattr"
    /\ touch[1].cred = [euid |-> touch[1].caller.uid, egid |-> touch[1].caller.gid,
                        groups |-> touch[1].caller.groups]

\* C6: a failed credential switch, in drop_privileges or in restore_privileges,
\* is the last thing its request does: the thread goes to perror_and_die, its
\* credentials, its syscalls, its primitive and its return value stay as they
\* were (a switch that failed in drop_privileges is followed by no primitive),
\* nothing happens after the abort, and a primitive invoked under the Guard is
\* invoked with the caller's uid and gid both, never with one of them.
C6_FailedSwitchAborts ==
    /\ [](\A t \in Threads :
            /\ Failed(t) =>
                  /\ th[t].pc = "die"
                  /\ syslog[t][Len(syslog[t])].status # 0
                  /\ \A i \in 1..(Len(syslog[t]) - 1) : syslog[t][i].status = 0
                  /\ gret[t].op = "none"
                  /\ Len(syslog[t]) <= 3 => ~touch[t].done
            /\ (GuardActive /\ touch[t].done /\ Guarded(touch[t].op)) =>
                  SwitchedTo(touch[t].cred, touch[t].caller))
    /\ [][\A t \in Threads :
            Failed(t) => /\ cred'[t] = cred[t] /\ syslog'[t] = syslog[t]
                         /\ touch'[t] = touch[t] /\ gret'[t] = gret[t]
                         /\ th'[t] = th[t]]_vars
    /\ [][~aborted]_vars

\* C6 witness: the process has aborted after setegid failed in drop_privileges,
\* with the group list already switched, and the handler invoked nothing
C6_Witness ==
    /\ aborted
    /\ \E t \in Threads :
          /\ Len(syslog[t]) = 2
          /\ syslog[t][2].call = "setegid" /\ syslog[t][2].status # 0
          /\ cred[t].groups # {} /\ cred[t].egid = 0
          /\ ~touch[t].done

\* C7: the credential syscalls of a request are issued in the order setgroups,
\* setegid, seteuid (to the caller's groups, gid and uid), then seteuid(0),
\* setegid(0), setgroups(none); every setgroups and setegid, in both
\* directions, is issued by a thread whose euid is 0.
C7_SwitchOrder ==
    \A t \in Threads :
        /\ Len(syslog[t]) <= 6
        /\ CallNames(syslog[t]) = SubSeq(SwitchOrder, 1, Len(syslog[t]))
        /\ \A i \in 1..Len(syslog[t]) :
              /\ syslog[t][i].call \in {"setgroups", "setegid"} => syslog[t][i].euid = 0
              /\ i = 1 => syslog[t][i].arg \in {ReqCaller(t).groups, {}}
              /\ i = 2 => syslog[t][i].arg = {ReqCaller(t).gid}
              /\ i = 3 => syslog[t][i].arg = {ReqCaller(t).uid}
              /\ i \in {4, 5} => syslog[t][i].arg = {0}
              /\ i = 6 => syslog[t][i].arg = {}
              /\ i = 4 => syslog[t][i].euid = ReqCaller(t).uid

\* C7 witness: a request has made all six switches and each succeeded
C7_Witness ==
    \E t \in Threads :
        /\ Len(syslog[t]) = 6
        /\ \A i \in 1..6 : syslog[t][i].status = 0
        /\ syslog[t][1].arg # {}

\* ------------------------------------------------- snapshots on the heap
Allocated == {a \in Addrs : heap[a].alloc}
\* the Dirents the opendir call in flight holds in its unique_ptr
InFlight == IF od.pc = "idle" THEN {} ELSE {od.dirents}
AllSettled == od.pc = "idle" /\ \A s \in Sessions : sess[s] # "open"

\* C8: a session's Dirents vector is created once, by its opendir, and deleted
\* once: by releasedir when opendir returned 0, by opendir itself when it
\* failed; a readdir call, whether it returns 0 or -ENOMEM, leaves the session's
\* handle, its vector's allocation and both counts as they were; the vectors
\* allocated are exactly those of the open sessions and of the opendir call in
\* flight, so none is allocated once every session is closed.
C8_SnapshotLifecycle ==
    /\ [](/\ \A s \in Sessions :
               /\ life[s].created <= 1 /\ life[s].released <= life[s].created
               /\ sess[s] = "open" =>
                     /\ life[s] = [created |-> 1, released |-> 0]
                     /\ heap[fh[s]].alloc
               /\ sess[s] = "closed" => life[s] = [created |-> 1, released |-> 1]
               /\ sess[s] = "failed" => fh[s] = 0 /\ life[s].released = life[s].created
          /\ Allocated = {fh[s] : s \in OpenSessions} \cup InFlight
          /\ AllSettled => Allocated = {})
    /\ [][\A s \in Sessions :
            /\ (sess[s] = "open" /\ sess'[s] = "open") =>
                  /\ fh'[s] = fh[s] /\ life'[s] = life[s]
                  /\ heap'[fh[s]].alloc
            /\ fh'[s] # fh[s] => sess[s] = "opening" /\ sess'[s] = "open"
            /\ life'[s].released # life[s].released => sess'[s] \in {"closed", "failed"}]_vars

\* C8 witness: the first session was opened and closed, the second is open, its
\* last readdir call was refused by filler, and one vector is allocated
C8_Witness ==
    /\ sess[1] = "closed" /\ life[1] = [created |-> 1, released |-> 1]
    /\ sess[2] = "open" /\ out[2].called /\ out[2].ret = NegErrno(ENOMEM)
    /\ Allocated = {fh[2]}

\* C9: two sessions open at once hold different Dirents vectors, and a step of
\* a handler on another session (its opendir, its readdir with the shuffle in
\* place, its releasedir) leaves a session open with its handle and with the
\* content and order of its vector as they were.
C9_SessionsIndependent ==
    /\ [](\A s, r \in OpenSessions : s # r => fh[s] # fh[r])
    /\ [][\A s \in Sessions :
            (sess[s] = "open" /\ acting' # s) =>
                /\ sess'[s] = "open"
                /\ fh'[s] = fh[s]
                /\ heap'[fh[s]] = heap[fh[s]]]_vars

\* C9 witness: both sessions are open on the directory, the second one has
\* shuffled and delivered its entries, and the two vectors are in different orders
C9_Witness ==
    /\ config.shuffle_dirents
    /\ sess[1] = "open" /\ sess[2] = "open"
    /\ acting = 2 /\ Delivered(2) /\ Len(out[2].seq) = 2
    /\ Snapshot(1) # Snapshot(2)
    /\ SeqToBag(Snapshot(1)) = SeqToBag(Snapshot(2))

\* ------------------------------------------------- sort, reverse, shuffle
NamesOf(seq) == [i \in 1..Len(seq) |-> seq[i].first]
NonDecreasingByName(seq) ==
    \A i, j \in 1..Len(seq) : i < j => seq[i].first <= seq[j].first

\* C11: with sort_dirents set and sort_by_ctime, reverse and shuffle not, the
\* Dirents of an open session and every listing a readdir call that returns 0
\* delivers are non-decreasing by d_name, in whatever order readdir(3) yielded
\* the entries during opendir.
C11_NameOrder ==
    (config.sort_dirents /\ ~config.sort_by_ctime
        /\ ~config.reverse_dirents /\ ~config.shuffle_dirents) =>
        \A s \in OpenSessions :
            /\ NonDecreasingByName(Snapshot(s))
            /\ Delivered(s) => NonDecreasingByName(out[s].seq) /\ out[s].seq = Snapshot(s)

\* C11 witness: readdir(3) yielded c, a, b and the session delivered a, b, c
C11_Witness ==
    /\ config.sort_dirents /\ ~config.sort_by_ctime
    /\ ~config.reverse_dirents /\ ~config.shuffle_dirents
    /\ sess[1] = "open" /\ Delivered(1)
    /\ NamesOf(raw[1]) = <<3, 1, 2>>
    /\ NamesOf(out[1].seq) = <<1, 2, 3>>

\* the entries of session s paired with the timestamps captured for them
KeyedRaw(s) == [i \in 1..Len(raw[s]) |-> CtimeDirentPair(ctimes[s][i], raw[s][i])]
\* the results std::sort may give for what readdir(3) yielded to session s
SortedRaw(s) ==
    IF config.sort_by_ctime
    THEN {[i \in 1..Len(p) |-> p[i].second] : p \in StdSort(KeyedRaw(s), "compare_ctime_dirents")}
    ELSE StdSort(raw[s], "operator<")

\* C12: with sort_dirents and reverse_dirents set and shuffle not, the Dirents
\* of an open session are the reverse of a sorted order of what readdir(3)
\* yielded (reversed once, after the sort: non-increasing by name, or by
\* captured ctime), and every readdir call that returns 0 delivers them so.
C12_ReverseAfterSort ==
    (config.sort_dirents /\ config.reverse_dirents /\ ~config.shuffle_dirents) =>
        \A s \in OpenSessions :
            /\ Reverse(Snapshot(s)) \in SortedRaw(s)
            /\ ~config.sort_by_ctime => NonDecreasingByName(Reverse(Snapshot(s)))
            /\ config.sort_by_ctime => NonDecreasingByCtime(s, Reverse(Snapshot(s)))
            /\ Delivered(s) => out[s].seq = Snapshot(s)

\* C12 witness: readdir(3) yielded c, a, b and the session, sorting by name and
\* reversing, delivered c, b, a
C12_Witness ==
    /\ config.sort_dirents /\ ~config.sort_by_ctime
    /\ config.reverse_dirents /\ ~config.shuffle_dirents
    /\ sess[1] = "open" /\ Delivered(1)
    /\ NamesOf(raw[1]) = <<3, 1, 2>>
    /\ NamesOf(out[1].seq) = <<3, 2, 1>>

\* C13: with reverse_dirents set and sort_dirents and shuffle not, the Dirents
\* of an open session, and every listing a readdir call that returns 0 delivers,
\* are the entries in exactly the reverse of the order in which readdir(3)
\* yielded them during opendir.
C13_ReverseOfRaw ==
    (config.reverse_dirents /\ ~config.sort_dirents /\ ~config.shuffle_dirents) =>
        \A s \in OpenSessions :
            /\ \A i \in 1..Len(raw[s]) : Snapshot(s)[i] = raw[s][Len(raw[s]) + 1 - i]
            /\ Len(Snapshot(s)) = Len(raw[s])
            /\ Delivered(s) => out[s].seq = Snapshot(s)

\* C13 witness: readdir(3) yielded c, a, b and the session, reversing only,
\* delivered b, a, c
C13_Witness ==
    /\ config.reverse_dirents /\ ~config.sort_dirents /\ ~config.shuffle_dirents
    /\ sess[1] = "open" /\ Delivered(1)
    /\ NamesOf(raw[1]) = <<3, 1, 2>>
    /\ NamesOf(out[1].seq) = <<2, 1, 3>>

\* C14: with shuffle_dirents not set, the Dirents of an open session stay in
\* the order opendir stored, no step of any handler on any session changes
\* them, and every readdir call on the session that returns 0 delivers that
\* one order, whatever the handlers did on the other session in between.
C14_NoShuffleStable ==
    /\ [](~config.shuffle_dirents =>
            \A s \in OpenSessions :
                /\ Snapshot(s) = stored[s]
                /\ Delivered(s) => out[s].seq = stored[s])
    /\ [][~config.shuffle_dirents =>
            \A s \in Sessions :
                /\ (sess[s] = "open" /\ sess'[s] = "open") =>
                      heap'[fh[s]] = heap[fh[s]] /\ stored'[s] = stored[s]
                /\ (Delivered(s) /\ out'[s].called /\ out'[s].ret = 0) =>
                      out'[s].seq = out[s].seq]_vars

\* C14 witness: without shuffle, the first session has just delivered its stored
\* order again, after the second session was opened and had a readdir call refused
C14_Witness ==
    /\ ~config.shuffle_dirents
    /\ sess[1] = "open" /\ sess[2] = "open"
    /\ out[2].called /\ out[2].ret = NegErrno(ENOMEM)
    /\ acting = 1 /\ Delivered(1) /\ Len(out[1].seq) = 2
    /\ out[1].seq = stored[1]

C16_RefusedEntry ==
    \A s \in OpenSessions :
        out[s].called =>
            /\ out[s].ret \in {0, 0 - ENOMEM}
            /\ out[s].ret = 0 - ENOMEM <=> Len(out[s].seq) < Len(Snapshot(s))
            /\ IsPrefix(out[s].seq, Snapshot(s))
            /\ heap[fh[s]].alloc
            /\ SeqToBag(Snapshot(s)) = SeqToBag(raw[s])
            /\ ENABLED (Readdir(s, Snapshot(s), Snapshot(s)) /\ UNCHANGED guardVars)
            /\ ENABLED (Releasedir(s) /\ UNCHANGED guardVars)

\* C16 witness: filler took one entry of three and refused the second
C16_Witness ==
    /\ sess[1] = "open" /\ out[1].called
    /\ out[1].ret = 0 - ENOMEM
    /\ Len(out[1].seq) = 1 /\ Len(Snapshot(1)) = 3

\* ------------------------------------------------- opendir's failures
\* C17: when opendir(3) or readdir(3) failed with errno e in a session's
\* opendir, opendir returned -e, no Dirents pointer was stored in the handle,
\* none stays allocated for it and no session is open; an opendir that returned
\* 0 saw neither fail and stored every entry the readdir(3) loop yielded.
C17_OpenFailurePropagates ==
    \A s \in Sessions :
        /\ uerr[s] # 0 =>
              /\ sess[s] = "failed"
              /\ opret[s] = 0 - uerr[s]
              /\ fh[s] = 0 /\ stored[s] = <<>>
              /\ \A a \in Addrs : heap[a].alloc => \E r \in Sessions \ {s} : sess[r] # "none"
        /\ sess[s] = "open" =>
              /\ uerr[s] = 0 /\ opret[s] = 0
              /\ Len(Snapshot(s)) = Len(raw[s])
              /\ SeqToBag(Snapshot(s)) = SeqToBag(raw[s])

\* C17 witness: the readdir(3) loop failed with EIO and opendir returned -EIO
C17_Witness ==
    /\ uerr[1] = EIO /\ opret[1] = 0 - EIO
    /\ sess[1] = "failed" /\ fh[1] = 0
    /\ \A a \in Addrs : ~heap[a].alloc

\* C17 second case, reached as well: opendir(3) failed with EACCES
C17_WitnessOpen ==
    uerr[1] = EACCES /\ opret[1] = 0 - EACCES /\ sess[1] = "failed"

\* ------------------------------------------------- the inactive Guard
\* C18: unless multi_user is set and the process runs as uid 0, no handler,
\* guarded or not, issues a credential syscall and no step changes the euid,
\* egid or groups of any thread; a guarded handler has switched its thread
\* to the caller (three syscalls) before its primitive exactly when
\* multi_user is set and the process runs as uid 0.
C18_InactiveGuardIsNoOp ==
    /\ [](\A t \in Threads :
            /\ ~(multi_user /\ isRoot) =>
                  /\ syslog[t] = <<>>
                  /\ th[t].pc \in {"idle", "body"}
                  /\ touch[t].done => touch[t].cred = cred[t]
            /\ (touch[t].done /\ Guarded(touch[t].op)) =>
                  ((multi_user /\ isRoot) <=> Len(syslog[t]) >= 3))
    /\ [][~(multi_user /\ isRoot) => cred' = cred]_vars

\* C18 witness: with multi_user set but not as uid 0, opendir has run and
\* returned with no credential syscall and the credentials the thread had
C18_Witness ==
    /\ multi_user /\ ~isRoot
    /\ \E t \in Threads :
          /\ gret[t].op = "opendir" /\ touch[t].done
          /\ syslog[t] = <<>>
          /\ cred[t].euid # 0 /\ touch[t].cred = cred[t]

\* C18 second case, reached as well: as uid 0 without multi_user
C18_WitnessRoot ==
    /\ ~multi_user /\ isRoot
    /\ \E t \in Threads :
          gret[t].op = "getattr" /\ touch[t].done /\ syslog[t] = <<>> /\ cred[t].euid = 0

\* ------------------------------------------------- the captured timestamps
\* the order opendir stored, before its reversal
StoredBeforeReverse(s) == IF config.reverse_dirents THEN Reverse(stored[s]) ELSE stored[s]
\* the first k entries readdir(3) yielded have been queried, once each and in
\* their order, and tmp holds their captured timestamps
Captured(k) ==
    /\ Len(od.tmp) = k
    /\ \A i \in 1..k : od.tmp[i] = CtimeDirentPair(ctimes[od.s][i], raw[od.s][i])

\* C19: in a ctime-sorting opendir, lstat is called on the entries one by one,
\* once each; while it is, and until all N timestamps are captured, the Dirents
\* are still in the order readdir(3) yielded (no comparison has run); the order
\* opendir then stores is a sort of the entries by the captured timestamps,
\* whatever the ctime on disk has become since, and a change on disk after the
\* captures changes none of them.
C19_CaptureBeforeCompare ==
    /\ [](CtimeSort =>
            /\ od.pc = "lstat" =>
                  /\ od.i <= Len(raw[od.s]) /\ Captured(od.i - 1)
                  /\ heap[od.dirents].v = raw[od.s]
            /\ (od.pc = "finish" /\ raw[od.s] # <<>>) =>
                  /\ Captured(Len(raw[od.s]))
                  /\ heap[od.dirents].v = raw[od.s]
            /\ \A s \in OpenSessions : StoredBeforeReverse(s) \in SortedRaw(s))
    /\ [][(CtimeSort /\ od.pc = "finish" /\ fs' # fs) =>
            od' = od /\ ctimes' = ctimes /\ heap' = heap]_vars

\* C19 witness: all three timestamps are captured, the sort has not run yet,
\* and the ctime on disk of one entry is no longer the captured one
C19_Witness ==
    /\ CtimeSort /\ od.pc = "finish" /\ Len(od.tmp) = 3
    /\ \E i \in 1..3 :
          /\ fs[od.tmp[i].second.first].present
          /\ fs[od.tmp[i].second.first].ctime # od.tmp[i].first

\* C19 second case, reached as well: the session is open in the order the
\* captured timestamps give, which the timestamps on disk would not give
C19_WitnessStored ==
    /\ CtimeSort /\ ~config.reverse_dirents /\ sess[1] = "open" /\ Len(stored[1]) = 3
    /\ \A i \in 1..3 : fs[stored[1][i].first].present
    /\ \E i, j \in 1..3 :
          /\ i < j
          /\ TimespecLess(fs[stored[1][j].first].ctime, fs[stored[1][i].first].ctime)

\* ------------------------------------------------- the sentinel timestamp
\* the entries of tmp that are no longer in the directory
UnlinkedSince == {k \in 1..Len(od.tmp) : ~fs[od.tmp[k].second.first].present}
LaterThanSentinel(ts) == ts.tv_sec > 0 \/ (ts.tv_sec = 0 /\ ts.tv_nsec > 0)

\* C20: when the lstat calls of a ctime-sorting opendir are done, an lstat has
\* failed exactly if some entry is keyed {0 s, 0 ns}, and in every order
\* std::sort may give the Dirents (before the reversal) each entry keyed
\* {0 s, 0 ns} precedes every entry whose captured timestamp is later.
C20_SentinelSortsFirst ==
    (CtimeSort /\ od.pc = "finish") =>
        /\ lstatFail[od.s] <=> \E k \in 1..Len(od.tmp) : od.tmp[k].first = Timespec(0, 0)
        /\ \A k \in 1..Len(od.tmp) :
              od.tmp[k].first = Timespec(0, 0) => k \in UnlinkedSince
        /\ \A d \in SortBranch(heap[od.dirents].v, od.tmp) :
              \A i, j \in 1..Len(d) :
                  (/\ KeyOf(od.s, d[i]) = Timespec(0, 0)
                   /\ LaterThanSentinel(KeyOf(od.s, d[j]))) => i < j

\* C20 witness: three entries are keyed, the one queried last was unlinked
\* before its lstat and is keyed {0 s, 0 ns}, and the sort puts it first
C20_Witness ==
    /\ CtimeSort /\ od.pc = "finish" /\ Len(od.tmp) = 3
    /\ lstatFail[od.s]
    /\ od.tmp[3].first = Timespec(0, 0)
    /\ LaterThanSentinel(od.tmp[1].first) /\ LaterThanSentinel(od.tmp[2].first)
    /\ \A d \in SortBranch(heap[od.dirents].v, od.tmp) : d[1] = od.tmp[3].second

\* ------------------------------------------------- entries of equal ctime
\* where the entry that readdir(3) yielded i-th stands in the sequence seq
PositionIn(seq, e) == CHOOSE k \in 1..Len(seq) : seq[k] = e
SameKey(s, i, j) == ctimes[s][i] = ctimes[s][j]

\* C21 as stated: in a ctime-sorted session, two entries whose captured
\* timestamps are equal stand in the sorted Dirents (before the reversal) in
\* the relative order in which readdir(3) yielded them.
C21_CtimeSortStable ==
    CtimeSort =>
        \A s \in OpenSessions :
            \A i, j \in 1..Len(raw[s]) :
                (i < j /\ SameKey(s, i, j)) =>
                    PositionIn(StoredBeforeReverse(s), raw[s][i])
                        < PositionIn(StoredBeforeReverse(s), raw[s][j])

\* C21 amended: in a ctime-sorted session, an entry whose captured timestamp is
\* earlier than another's stands before it in the sorted Dirents (before the
\* reversal), every entry readdir(3) yielded stands in them exactly once, and
\* entries of equal captured timestamps stand next to one another, in either
\* relative order.
C21_CtimeSortByKeyOnly ==
    CtimeSort =>
        \A s \in OpenSessions :
            /\ Len(stored[s]) = Len(raw[s])
            /\ \A i \in 1..Len(raw[s]) :
                  Cardinality({k \in 1..Len(stored[s]) : stored[s][k] = raw[s][i]}) = 1
            /\ \A i, j \in 1..Len(raw[s]) :
                  TimespecLess(ctimes[s][i], ctimes[s][j]) =>
                      PositionIn(StoredBeforeReverse(s), raw[s][i])
                          < PositionIn(StoredBeforeReverse(s), raw[s][j])

\* C21 witness: readdir(3) yielded c before b, both were captured with the same
\* timestamp, earlier than a's, and the sorted Dirents are b, c, a
C21_Witness ==
    /\ CtimeSort /\ ~config.reverse_dirents
    /\ sess[1] = "open"
    /\ NamesOf(raw[1]) = <<3, 1, 2>>
    /\ SameKey(1, 1, 3)
    /\ NamesOf(stored[1]) = <<2, 3, 1>>

\* ------------------------------------------------- sort_by_ctime alone
\* C22: with sort_dirents not set, whether sort_by_ctime is set or not, opendir
\* calls lstat on no entry (it has no keyed pairs and no failed query) and
\* stores the entries as readdir(3) yielded them, reversed if reverse_dirents
\* is set: the stored order depends on the raw order and the reverse setting
\* alone.
C22_CtimeAloneNoEffect ==
    ~config.sort_dirents =>
        /\ od.pc # "lstat" /\ od.tmp = <<>>
        /\ \A s \in Sessions : ~lstatFail[s]
        /\ \A s \in OpenSessions :
              /\ Len(stored[s]) = Len(raw[s])
              /\ \A i \in 1..Len(raw[s]) :
                    stored[s][i] = raw[s][IF config.reverse_dirents
                                          THEN Len(raw[s]) + 1 - i ELSE i]

\* C22 witness: with sort_by_ctime set and sort_dirents and reverse not, a
\* session is open on b, a in this raw order, stored as read, although a's
\* ctime is the later one
C22_Witness ==
    /\ ~config.sort_dirents /\ config.sort_by_ctime /\ ~config.reverse_dirents
    /\ sess[1] = "open"
    /\ NamesOf(raw[1]) = <<2, 1>>
    /\ stored[1] = raw[1]
    /\ TimespecLess(fs[2].ctime, fs[1].ctime)

\* ------------------------------------------------- the DIR stream of opendir
\* C23: every DIR stream opened by opendir is closed before opendir returns, on
\* every exit path: while opendir runs exactly one stream is open, and whenever
\* no opendir is running, after any sequence of successful and failed calls, no
\* stream is open.
C23_NoStreamLeftOpen ==
    streams = (IF od.pc = "idle" THEN 0 ELSE 1)

\* ------------------------------------------------- fuse_getgroups failing
\* the thread's credential syscalls so far are the first ones of drop_privileges
\* with the given group list: setgroups(list), setegid(gid), seteuid(uid)
DropCalls(t, list) ==
    \A i \in 1..Len(syslog[t]) :
        i <= 3 => /\ syslog[t][i].call = DropOrder[i]
                  /\ syslog[t][i].arg = <<list, {th[t].caller.gid}, {th[t].caller.uid}>>[i]

\* C24: a failure of fuse_getgroups in Guard::Guard does not abort the process
\* (only a failed credential switch does): the thread goes on to setgroups with
\* an empty list, then setegid and seteuid to the caller's, and runs the
\* handler's body with no supplementary group. In every case the groups a thread
\* holds in the body of a guarded handler, and when the handler invokes its
\* primitive, are a subset of the groups of the caller of its own request.
C24_GetGroupsFailure ==
    /\ aborted => \E t \in Threads : Failed(t)
    /\ \A t \in Threads :
          /\ th[t].pc = "die" => Failed(t)
          /\ th[t].ngroups < 0 =>
                /\ th[t].pc \in {"drop", "body", "restore", "die"}
                /\ DropCalls(t, {})
                /\ th[t].pc = "body" =>
                      cred[t] = [euid |-> th[t].caller.uid, egid |-> th[t].caller.gid,
                                 groups |-> {}]
          /\ (multi_user /\ isRoot /\ th[t].pc = "body" /\ Guarded(th[t].op)) =>
                cred[t].groups \subseteq th[t].caller.groups
          /\ (multi_user /\ isRoot /\ touch[t].done /\ Guarded(touch[t].op)) =>
                touch[t].cred.groups \subseteq touch[t].caller.groups

\* C24 witness: fuse_getgroups failed for thread 1; nothing aborted, and its
\* guarded handler has invoked its primitive
\* as caller 1 with no supplementary group while thread 2 runs for caller 2
\* with that caller's groups
C24_Witness ==
    /\ multi_user /\ isRoot /\ ~aborted
    /\ th[1].ngroups < 0 /\ th[1].pc = "restore" /\ Guarded(th[1].op)
    /\ touch[1].done
    /\ touch[1].cred = [euid |-> 1, egid |-> 1, groups |-> {}]
    /\ touch[1].caller.groups = {1, 3}
    /\ th[2].pc = "body" /\ th[2].ngroups = 2 /\ cred[2].groups = {2, 3}

====
